---------------------------- MODULE Spec2Model ----------------------------
(***************************************************************************)
(* A model of src/weather.py: five tools (geocode_city, get_alerts,        *)
(* get_forecast, get_current_location, get_flights) that each issue        *)
(* outbound HTTP GETs and turn the JSON answer into text.                  *)
(*                                                                         *)
(* One invocation is in flight at a time.  An invocation suspends at each  *)
(* awaited outbound call; the upstream's answer (a transport error, a bad  *)
(* status, a body that is not JSON, or a JSON body of any shape) is chosen *)
(* by the environment when the call completes.                             *)
(*                                                                         *)
(* Python values are tagged records; Python strings are TLA+ strings.      *)
(* An evaluation that can raise yields Ok(value) or Raise(exception name). *)
(***************************************************************************)
EXTENDS Integers, Sequences, FiniteSets, TLC

VARIABLES pc, tool, args, calls, resps, ret

vars == <<pc, tool, args, calls, resps, ret>>

----------------------------------------------------------------------------
(* Bounds of the model *)

MaxPeriods == 7
MaxAlerts == 2
MaxMatches == 2
MaxOffers == 2
MaxDays == 4

----------------------------------------------------------------------------
(* Python values *)

JNull == [t |-> "null"]
JStr(s) == [t |-> "str", s |-> s]
JInt(n) == [t |-> "int", n |-> n]
\* A float m / 10^e, with e >= 0 and m not a multiple of 10 unless e = 0.
JFloat(m, e) == [t |-> "float", m |-> m, e |-> e]
JList(l) == [t |-> "list", l |-> l]
JDict(d) == [t |-> "dict", d |-> d]
EmptyDict == JDict(<<>>)

\* What evaluating an expression comes to: its value, or the exception it raises.
Ok(v) == [ok |-> TRUE, v |-> v]
Raise(e) == [ok |-> FALSE, exc |-> e]

\* The values of the expressions rs, evaluated in turn, or the first exception
\* that one of them raises
All(rs) ==
    IF \A i \in DOMAIN rs : rs[i].ok
    THEN Ok([i \in DOMAIN rs |-> rs[i].v])
    ELSE rs[CHOOSE i \in DOMAIN rs : ~rs[i].ok /\ \A j \in 1..(i - 1) : rs[j].ok]

\* bool(v)
Truthy(v) ==
    CASE v.t = "null" -> FALSE
      [] v.t = "str" -> v.s # ""
      [] v.t = "int" -> v.n # 0
      [] v.t = "float" -> v.m # 0
      [] v.t = "list" -> v.l # <<>>
      [] v.t = "dict" -> DOMAIN v.d # {}

\* The operators on r below take what evaluating their operand came to: an
\* exception it raised is the exception of the whole expression.

\* r[k] for a string key k
GetItem(r, k) ==
    IF ~r.ok THEN r
    ELSE CASE r.v.t = "dict" -> IF k \in DOMAIN r.v.d THEN Ok(r.v.d[k]) ELSE Raise("KeyError")
           [] OTHER -> Raise("TypeError")

\* r[i] for an integer index i >= 0 (0-based)
GetIndex(r, i) ==
    IF ~r.ok THEN r
    ELSE CASE r.v.t = "list" -> IF i < Len(r.v.l) THEN Ok(r.v.l[i + 1]) ELSE Raise("IndexError")
           [] r.v.t = "str" -> IF i < Len(r.v.s) THEN Ok(JStr(SubSeq(r.v.s, i + 1, i + 1)))
                                                   ELSE Raise("IndexError")
           [] r.v.t = "dict" -> Raise("KeyError")
           [] OTHER -> Raise("TypeError")

\* r.get(k, default)
Get(r, k, default) ==
    IF ~r.ok THEN r
    ELSE CASE r.v.t = "dict" -> IF k \in DOMAIN r.v.d THEN Ok(r.v.d[k]) ELSE Ok(default)
           [] OTHER -> Raise("AttributeError")

StartsWith(s, p) == Len(s) >= Len(p) /\ SubSeq(s, 1, Len(p)) = p

IsSubstring(k, s) ==
    \E i \in 1..(Len(s) - Len(k) + 1) : SubSeq(s, i, i + Len(k) - 1) = k

\* k in v, for a string k
Contains(k, v) ==
    CASE v.t = "dict" -> Ok(k \in DOMAIN v.d)
      [] v.t = "list" -> Ok(\E i \in 1..Len(v.l) : v.l[i] = JStr(k))
      [] v.t = "str" -> Ok(k = "" \/ IsSubstring(k, v.s))
      [] OTHER -> Raise("TypeError")

Min(a, b) == IF a < b THEN a ELSE b

\* r[:n]
SliceTo(r, n) ==
    IF ~r.ok THEN r
    ELSE CASE r.v.t = "list" -> Ok(JList(SubSeq(r.v.l, 1, Min(n, Len(r.v.l)))))
           [] r.v.t = "str" -> Ok(JStr(SubSeq(r.v.s, 1, Min(n, Len(r.v.s)))))
           [] OTHER -> Raise("TypeError")

\* len(r)
PyLen(r) ==
    IF ~r.ok THEN r
    ELSE CASE r.v.t = "list" -> Ok(Len(r.v.l))
           [] r.v.t = "str" -> Ok(Len(r.v.s))
           [] r.v.t = "dict" -> Ok(Cardinality(DOMAIN r.v.d))
           [] OTHER -> Raise("TypeError")

RECURSIVE Pow10(_)
Pow10(e) == IF e = 0 THEN 1 ELSE 10 * Pow10(e - 1)

RECURSIVE ZeroPad(_, _)
ZeroPad(s, w) == IF Len(s) >= w THEN s ELSE ZeroPad("0" \o s, w)

Abs(n) == IF n < 0 THEN -n ELSE n

\* str(v), as an f-string interpolates it (containers are abbreviated)
PyStr(v) ==
    CASE v.t = "null" -> "None"
      [] v.t = "str" -> v.s
      [] v.t = "int" -> ToString(v.n)
      [] v.t = "float" ->
            (IF v.m < 0 THEN "-" ELSE "")
            \o ToString(Abs(v.m) \div Pow10(v.e)) \o "."
            \o (IF v.e = 0 THEN "0" ELSE ZeroPad(ToString(Abs(v.m) % Pow10(v.e)), v.e))
      [] v.t = "list" -> "[...]"
      [] v.t = "dict" -> "{...}"

Digits == {"0", "1", "2", "3", "4", "5", "6", "7", "8", "9"}

DigitVal(c) ==
    CASE c = "0" -> 0 [] c = "1" -> 1 [] c = "2" -> 2 [] c = "3" -> 3 [] c = "4" -> 4
      [] c = "5" -> 5 [] c = "6" -> 6 [] c = "7" -> 7 [] c = "8" -> 8 [] c = "9" -> 9

Char(s, i) == SubSeq(s, i, i)

AllDigits(s) == \A i \in 1..Len(s) : Char(s, i) \in Digits

RECURSIVE DigitsVal(_)
DigitsVal(s) ==
    IF s = "" THEN 0
    ELSE 10 * DigitsVal(SubSeq(s, 1, Len(s) - 1)) + DigitVal(Char(s, Len(s)))

RECURSIVE Normalize(_, _)
Normalize(m, e) ==
    IF e > 0 /\ m % 10 = 0 THEN Normalize(m \div 10, e - 1) ELSE JFloat(m, e)

\* Where the first "." of s is, Len(s) + 1 if it has none
DotIndex(s) ==
    IF \E i \in 1..Len(s) : Char(s, i) = "."
    THEN CHOOSE i \in 1..Len(s) : Char(s, i) = "." /\ \A j \in 1..(i - 1) : Char(s, j) # "."
    ELSE Len(s) + 1

\* The float with integer part ip, fraction fp and the given sign
Decimal(ip, fp, sign) ==
    IF AllDigits(ip) /\ AllDigits(fp) /\ ip \o fp # ""
    THEN Ok(Normalize(sign * DigitsVal(ip \o fp), Len(fp)))
    ELSE Raise("ValueError")

\* float(s) for an unsigned s
ParseDecimal(s, sign) ==
    Decimal(SubSeq(s, 1, DotIndex(s) - 1), SubSeq(s, DotIndex(s) + 1, Len(s)), sign)

\* float(s) for a string: [sign] digits [. digits]; anything else is a ValueError
\* (exponents, inf and nan are not among the inputs of the model).
ParseFloat(s) ==
    IF s # "" /\ Char(s, 1) \in {"-", "+"}
    THEN ParseDecimal(SubSeq(s, 2, Len(s)), IF Char(s, 1) = "-" THEN -1 ELSE 1)
    ELSE ParseDecimal(s, 1)

\* float(r)
PyFloat(r) ==
    IF ~r.ok THEN r
    ELSE CASE r.v.t = "int" -> Ok(JFloat(r.v.n, 0))
           [] r.v.t = "float" -> r
           [] r.v.t = "str" -> ParseFloat(r.v.s)
           [] OTHER -> Raise("TypeError")

RECURSIVE Join(_, _)
\* sep.join(parts), parts a sequence of strings
Join(parts, sep) ==
    IF parts = <<>> THEN ""
    ELSE IF Len(parts) = 1 THEN parts[1]
    ELSE parts[1] \o sep \o Join(Tail(parts), sep)

\* sep.join(parts) as a value, parts what evaluating the list came to
JoinStr(parts, sep) == IF parts.ok THEN Ok(JStr(Join(parts.v, sep))) ELSE parts

----------------------------------------------------------------------------
(* Outbound calls *)

\* What an awaited client.get can come to.
NetFailures == {[o |-> "ConnectError"], [o |-> "ReadTimeout"], [o |-> "BadStatus"]}

Outcomes(bodies) ==
    NetFailures \cup {[o |-> "NotJson"]} \cup {[o |-> "Json", body |-> b] : b \in bodies}

\* client.get(..., timeout=30.0); raise_for_status(); json()
Fetch(r) ==
    CASE r.o = "ConnectError" -> Raise("ConnectError")
      [] r.o = "ReadTimeout" -> Raise("ReadTimeout")
      [] r.o = "BadStatus" -> Raise("HTTPStatusError")
      [] r.o = "NotJson" -> Raise("JSONDecodeError")
      [] r.o = "Json" -> Ok(r.body)

\* IsHttpxError with the timeouts left out of what is caught
IsHttpxError_NoTimeout(e) == e \in {"ConnectError", "HTTPStatusError"}

\* except (httpx.HTTPStatusError, httpx.RequestError)
IsHttpxError(e) == e \in {"ConnectError", "ReadTimeout", "HTTPStatusError"}

Returned(v) == [kind |-> "returned", v |-> v]
Raised(e) == [kind |-> "raised", exc |-> e]
NoRet == [kind |-> "none"]

\* A tool's outcome from an evaluation: its value, or the exception that escapes.
Outcome(x) == IF x.ok THEN Returned(x.v) ELSE Raised(x.exc)

----------------------------------------------------------------------------
(* geocode_city *)

GEOCODE_API_BASE == "https://nominatim.openstreetmap.org/search"

Cities == {"Turin", "Nowhere"}

MatchSet ==
    {JDict([lat |-> JStr("45.07"), lon |-> JStr("7.68"), display_name |-> JStr("Torino, Italia")]),
     JDict([lat |-> JStr("-33.9"), lon |-> JStr("18.4")]),
     JDict([lat |-> JFloat(4507, 2), lon |-> JInt(7), display_name |-> JStr("Torino")]),
     JDict([lat |-> JStr("north"), lon |-> JStr("7.68"), display_name |-> JStr("Bad")]),
     JDict([lon |-> JStr("7.68")]),
     JDict([lat |-> JStr("1.50"), lon |-> JNull]),
     JStr("match")}

RECURSIVE SeqsUpTo(_, _)
\* The sequences over S of length at most n
SeqsUpTo(S, n) ==
    IF n = 0 THEN {<<>>}
    ELSE LET shorter == SeqsUpTo(S, n - 1)
         IN  shorter \cup {Append(q, x) : q \in {p \in shorter : Len(p) = n - 1}, x \in S}

GeocodeBodies ==
    {JList(l) : l \in SeqsUpTo(MatchSet, MaxMatches)}
    \cup {EmptyDict, JDict([error |-> JStr("rate limited")]), JNull}

\* The dict make_geocode_request returns, from its three entries
GeocodeDict(v) ==
    IF v.ok
    THEN Ok(JDict([latitude |-> v.v[1], longitude |-> v.v[2], display_name |-> v.v[3]]))
    ELSE v

\* The dict built from item = data[0]
GeocodeRecord(item) ==
    GeocodeDict(All(<<PyFloat(GetItem(item, "lat")),
                      PyFloat(GetItem(item, "lon")),
                      Get(item, "diplay_name", JNull)>>))

\* make_geocode_request, from the answer of its one request on
make_geocode_request(r) ==
    LET data == Fetch(r)
        record == GeocodeRecord(GetIndex(data, 0))
    IN  IF data.ok /\ Truthy(data.v) /\ record.ok THEN record.v ELSE JNull

Call_geocode_city(city) ==
    /\ pc = "idle"
    /\ pc' = "geocode_wait"
    /\ tool' = "geocode_city"
    /\ args' = [city |-> city]
    /\ calls' = <<[ep |-> "geocode", url |-> GEOCODE_API_BASE, q |-> city, limit |-> 1]>>
    /\ resps' = <<>>
    /\ ret' = NoRet

Resume_geocode_city(r) ==
    /\ pc = "geocode_wait"
    /\ LET result == make_geocode_request(r)
       IN  ret' = IF ~Truthy(result)
                  THEN Returned(JStr("Unable to geocode the provided location."))
                  ELSE Returned(result)
    /\ resps' = Append(resps, r)
    /\ pc' = "done"
    /\ UNCHANGED <<tool, args, calls>>

----------------------------------------------------------------------------
(* make_nws_request, format_alert, get_alerts *)

NWS_API_BASE == "https://api.weather.gov"

\* make_nws_request, from the answer of its one request on
make_nws_request(r) ==
    LET data == Fetch(r)
    IN  IF data.ok THEN data.v ELSE JNull

\* The f-string of format_alert, from the five entries it interpolates
AlertText(v) ==
    IF v.ok
    THEN Ok("\nEvent: " \o PyStr(v.v[1])
            \o "\nArea: " \o PyStr(v.v[2])
            \o "\nSeverity: " \o PyStr(v.v[3])
            \o "\nDescription: " \o PyStr(v.v[4])
            \o "\nInstructions: " \o PyStr(v.v[5]) \o "\n")
    ELSE v

\* format_alert
format_alert(feature) ==
    LET props == GetItem(Ok(feature), "properties")
    IN  AlertText(All(<<Get(props, "event", JStr("Unknown")),
                        Get(props, "areaDesc", JStr("Unknown")),
                        Get(props, "severity", JStr("Unknown")),
                        Get(props, "description", JStr("No description available")),
                        Get(props, "instruction", JStr("No specific instructions provided"))>>))

RECURSIVE KeySeq(_)
\* The keys of a dict in some order (the order of insertion is not modelled)
KeySeq(K) ==
    IF K = {} THEN <<>>
    ELSE LET k == CHOOSE x \in K : TRUE IN <<JStr(k)>> \o KeySeq(K \ {k})

\* for x in r
Iterate(r) ==
    IF ~r.ok THEN r
    ELSE CASE r.v.t = "list" -> Ok(r.v.l)
           [] r.v.t = "str" -> Ok([i \in 1..Len(r.v.s) |-> JStr(Char(r.v.s, i))])
           [] r.v.t = "dict" -> Ok(KeySeq(DOMAIN r.v.d))
           [] OTHER -> Raise("TypeError")

\* [format_alert(feature) for feature in features]
FormatAlerts(features) ==
    IF features.ok
    THEN All([i \in DOMAIN features.v |-> format_alert(features.v[i])])
    ELSE features

\* get_alerts once data is known to have "features"
ListAlerts(data) ==
    LET features == GetItem(Ok(data), "features")
    IN  IF features.ok /\ ~Truthy(features.v)
        THEN Ok(JStr("No active alerts for this state."))
        ELSE JoinStr(FormatAlerts(Iterate(features)), "\n---\n")

States == {"CA", "ZZ"}

AlertProps ==
    {[event |-> JStr("Flood Warning"), areaDesc |-> JStr("Kern"), severity |-> JStr("Severe"),
      description |-> JStr("Flooding."), instruction |-> JStr("Move to higher ground.")],
     [event |-> JStr("Heat Advisory"), severity |-> JStr("Moderate"), instruction |-> JNull]}

FeatureSet ==
    {JDict([properties |-> JDict(p)]) : p \in AlertProps}
    \cup {JDict([id |-> JStr("urn:oid:1")]), JDict([properties |-> JNull])}

AlertBodies ==
    {JDict([features |-> JList(l)]) : l \in SeqsUpTo(FeatureSet, MaxAlerts)}
    \cup {JDict([type |-> JStr("FeatureCollection"), features |-> JList(<<>>)]),
          JDict([features |-> JNull]),
          JDict([features |-> EmptyDict]),
          JDict([features |-> JStr("")]),
          JDict([features |-> JStr("none")]),
          JDict([features |-> JDict([a |-> JNull])]),
          JDict([title |-> JStr("Not Found"), status |-> JInt(404)]),
          EmptyDict, JNull,
          JList(<<>>), JList(<<JStr("features")>>), JList(<<JStr("alerts")>>),
          JStr("features are unavailable"), JStr("unavailable"), JInt(503)}

AlertsUrl(state) == NWS_API_BASE \o "/alerts/active/area/" \o state

\* get_alerts, from the answer of its one request on
get_alerts_body(r) ==
    LET data == make_nws_request(r)
        present == IF Truthy(data) THEN Contains("features", data) ELSE Ok(FALSE)
    IN  IF ~present.ok THEN present
        ELSE IF ~present.v THEN Ok(JStr("Unable to fetch alerts or no alerts found."))
        ELSE ListAlerts(data)

Call_get_alerts(state) ==
    /\ pc = "idle"
    /\ pc' = "alerts_wait"
    /\ tool' = "get_alerts"
    /\ args' = [state |-> state]
    /\ calls' = <<[ep |-> "nws_alerts", url |-> AlertsUrl(state)]>>
    /\ resps' = <<>>
    /\ ret' = NoRet

Resume_get_alerts(r) ==
    /\ pc = "alerts_wait"
    /\ ret' = Outcome(get_alerts_body(r))
    /\ resps' = Append(resps, r)
    /\ pc' = "done"
    /\ UNCHANGED <<tool, args, calls>>

----------------------------------------------------------------------------
(* The answers the weather providers can give to get_forecast's requests *)

PointsBodies ==
    {JDict([properties |-> JDict([forecast |-> JStr(u)])]) :
        u \in {"https://api.weather.gov/gridpoints/TOP/31,80/forecast",
               "http://api.weather.gov/gridpoints/BOU/62,61/forecast",
               "gridpoints/TOP/31,80/forecast", ""}}
    \cup {JDict([properties |-> JDict([forecast |-> JNull])]),
          JDict([properties |-> JDict([gridId |-> JStr("TOP")])]),
          JDict([properties |-> EmptyDict]),
          JDict([properties |-> JNull]),
          JDict([title |-> JStr("Data Unavailable For Requested Point"), status |-> JInt(404)]),
          EmptyDict, JNull, JList(<<>>), JList(<<JInt(1)>>), JStr("ok")}

Period(i) ==
    JDict([name |-> JStr("Period " \o ToString(i)), temperature |-> JInt(60 + i),
           temperatureUnit |-> JStr("F"), windSpeed |-> JStr("5 mph"),
           windDirection |-> JStr("NW"), detailedForecast |-> JStr("Clear.")])

\* A period that lacks all fields but its name
BadPeriod(i) == JDict([name |-> JStr("Period " \o ToString(i))])

PeriodLists ==
    {[i \in 1..n |-> Period(i)] : n \in 0..MaxPeriods}
    \cup {[i \in 1..n |-> Period(n + 1 - i)] : n \in 2..MaxPeriods}
    \cup {[i \in 1..n |-> IF i = k THEN BadPeriod(i) ELSE Period(i)] :
            n \in 1..MaxPeriods, k \in 1..MaxPeriods}

DetailBodies ==
    {JDict([properties |-> JDict([periods |-> JList(l)])]) : l \in PeriodLists}
    \cup {JDict([properties |-> JDict([periods |-> JNull])]),
          JDict([properties |-> JDict([periods |-> JStr("soon")])]),
          JDict([properties |-> JDict([updated |-> JStr("2024-01-01")])]),
          JDict([properties |-> JNull]),
          JDict([title |-> JStr("Unexpected Problem"), status |-> JInt(500)]),
          EmptyDict, JNull, JList(<<>>), JList(<<Period(1)>>)}

CurrentWeather ==
    JDict([temperature |-> JFloat(215, 1), windspeed |-> JInt(12), winddirection |-> JInt(270),
           weathercode |-> JInt(3)])

Day(i) == JStr("2024-01-0" \o ToString(i))

\* A daily summary of n dates whose other arrays hold k entries
Daily(n, k) ==
    JDict([time |-> JList([i \in 1..n |-> Day(i)]),
           temperature_2m_max |-> JList([i \in 1..k |-> JInt(10 + i)]),
           temperature_2m_min |-> JList([i \in 1..k |-> JInt(i)]),
           weathercode |-> JList([i \in 1..k |-> JInt(60 + i)])])

OpenMeteoBodies ==
    {JDict([current_weather |-> CurrentWeather, daily |-> Daily(n, n)]) : n \in 0..MaxDays}
    \cup {JDict([current_weather |-> CurrentWeather, daily |-> Daily(n, n - 1)]) : n \in 1..MaxDays}
    \cup {JDict([daily |-> Daily(2, 2)]),
          JDict([current_weather |-> CurrentWeather]),
          JDict([current_weather |-> CurrentWeather,
                 daily |-> JDict([time |-> JList(<<Day(1)>>)])]),
          JDict([current_weather |-> CurrentWeather, daily |-> JDict([time |-> JNull])]),
          JDict([current_weather |-> JNull, daily |-> Daily(1, 1)]),
          JDict([current_weather |-> CurrentWeather, daily |-> JNull]),
          JDict([error |-> JStr("true"), reason |-> JStr("Latitude must be in range")]),
          EmptyDict, JNull, JList(<<>>), JList(<<JInt(1)>>), JStr("ok")}

----------------------------------------------------------------------------
(* make_openmeteo_request, format_openmeteo_forecast, get_forecast *)

OPENMETEO_API_BASE == "https://api.open-meteo.com/v1"

\* The coordinates a caller passes
Coords == {<<JFloat(3971, 2), JFloat(-1049, 1)>>, <<JFloat(4507, 2), JFloat(768, 2)>>}

PointsUrl(latitude, longitude) ==
    NWS_API_BASE \o "/points/" \o PyStr(latitude) \o "," \o PyStr(longitude)

OpenMeteoUrl(lat, lon) ==
    OPENMETEO_API_BASE \o "/forecast?latitude=" \o PyStr(lat) \o "&longitude=" \o PyStr(lon)
    \o "&current_weather=true&hourly=temperature_2m,relative_humidity_2m,wind_speed_10m,wind_direction_10m"
    \o "&daily=temperature_2m_max,temperature_2m_min,weathercode&timezone=auto&forecast_days=3"

\* make_openmeteo_request, from the answer of its one request on
make_openmeteo_request(r) ==
    LET data == Fetch(r)
    IN  IF data.ok THEN data.v ELSE JNull

\* The line of one day, from the four entries it interpolates
DayText(v) ==
    IF v.ok
    THEN Ok(PyStr(v.v[1]) \o ": High " \o PyStr(v.v[2]) \o "°C, Low "
            \o PyStr(v.v[3]) \o "°C, Code " \o PyStr(v.v[4]) \o "\n")
    ELSE v

\* One pass of the loop of format_openmeteo_forecast, for index i (0-based)
DayLine(daily, i) ==
    DayText(All(<<GetIndex(GetItem(daily, "time"), i),
                  GetIndex(GetItem(daily, "temperature_2m_max"), i),
                  GetIndex(GetItem(daily, "temperature_2m_min"), i),
                  GetIndex(GetItem(daily, "weathercode"), i)>>))

\* The lines appended in turn
Concat(lines) == IF lines.ok THEN Ok(Join(lines.v, "")) ELSE lines

\* for i in range(min(3, n)), n what len(daily.get("time", [])) came to
DayLines(daily, n) ==
    IF n.ok THEN Concat(All([k \in 1..Min(3, n.v) |-> DayLine(daily, k - 1)])) ELSE n

\* The text format_openmeteo_forecast returns, from what it interpolates
OpenMeteoText(v) ==
    IF v.ok
    THEN Ok(JStr("\nCurrent Weather:\nTemperature: " \o PyStr(v.v[1])
                 \o "°C\nWind: " \o PyStr(v.v[2]) \o " km/h from "
                 \o PyStr(v.v[3]) \o "°\nWeather Code: " \o PyStr(v.v[4])
                 \o " (see https://open-meteo.com/en/docs for codes)\n\nNext 3 Days Forecast:\n"
                 \o v.v[5]))
    ELSE v

\* format_openmeteo_forecast
format_openmeteo_forecast(data) ==
    LET current == Get(Ok(data), "current_weather", EmptyDict)
        daily == Get(Ok(data), "daily", EmptyDict)
    IN  OpenMeteoText(All(<<Get(current, "temperature", JStr("N/A")),
                            Get(current, "windspeed", JStr("N/A")),
                            Get(current, "winddirection", JStr("N/A")),
                            Get(current, "weathercode", JStr("N/A")),
                            DayLines(daily, PyLen(Get(daily, "time", JList(<<>>))))>>))

\* The f-string of get_forecast's loop, from the six entries it interpolates
PeriodText(v) ==
    IF v.ok
    THEN Ok("\n    " \o PyStr(v.v[1]) \o ":\n    Temperature: " \o PyStr(v.v[2])
            \o "°" \o PyStr(v.v[3]) \o "\n    Wind: " \o PyStr(v.v[4]) \o " "
            \o PyStr(v.v[5]) \o "\n    Forecast: " \o PyStr(v.v[6]) \o "\n    ")
    ELSE v

\* One pass of get_forecast's loop
FormatPeriod(period) ==
    PeriodText(All(<<GetItem(Ok(period), "name"),
                     GetItem(Ok(period), "temperature"),
                     GetItem(Ok(period), "temperatureUnit"),
                     GetItem(Ok(period), "windSpeed"),
                     GetItem(Ok(period), "windDirection"),
                     GetItem(Ok(period), "detailedForecast")>>))

\* The loop of get_forecast over the periods it shows
FormatPeriods(periods) ==
    IF periods.ok
    THEN All([i \in DOMAIN periods.v |-> FormatPeriod(periods.v[i])])
    ELSE periods

\* ShownPeriods without the cut
ShownPeriods_uncut(periods) ==
    IF periods.ok /\ periods.v.t = "list" THEN periods ELSE SliceTo(periods, 5)

\* periods[:5]
ShownPeriods(periods) == SliceTo(periods, 5)

\* get_forecast from the detail answer on: the rendering of forecast_data
RenderForecast(forecast_data) ==
    LET periods == GetItem(GetItem(Ok(forecast_data), "properties"), "periods")
    IN  JoinStr(FormatPeriods(Iterate(ShownPeriods(periods))), "\n---\n")

\* Whether client.get(url) sends a request: httpx raises TypeError for a url that
\* is no string and UnsupportedProtocol for one with no http(s) scheme, both
\* inside make_nws_request's try.
IsRequestUrl(url) ==
    /\ url.t = "str"
    /\ StartsWith(url.s, "https://") \/ StartsWith(url.s, "http://")

Call_get_forecast(latitude, longitude) ==
    /\ pc = "idle"
    /\ pc' = "points_wait"
    /\ tool' = "get_forecast"
    /\ args' = [latitude |-> latitude, longitude |-> longitude]
    /\ calls' = <<[ep |-> "nws_points", url |-> PointsUrl(latitude, longitude)]>>
    /\ resps' = <<>>
    /\ ret' = NoRet

\* The secondary provider's request of get_forecast
OpenMeteoCall(latitude, longitude) ==
    [ep |-> "openmeteo", url |-> OpenMeteoUrl(latitude, longitude)]

\* What get_forecast does with points_data: "detail" (fetch forecast_url),
\* "nodetail" (the fetch raises before any request), "raise" or "fallback"
PointsBranch(points_data) ==
    IF Truthy(points_data)
    THEN LET forecast_url == GetItem(GetItem(Ok(points_data), "properties"), "forecast")
         IN  IF ~forecast_url.ok THEN [to |-> "raise", exc |-> forecast_url.exc]
             ELSE IF IsRequestUrl(forecast_url.v) THEN [to |-> "detail", url |-> forecast_url.v.s]
             ELSE [to |-> "nodetail"]
    ELSE [to |-> "fallback"]

\* get_forecast from the points answer to its next await or its return
Resume_points(r) ==
    /\ pc = "points_wait"
    /\ resps' = Append(resps, r)
    /\ LET b == PointsBranch(make_nws_request(r))
       IN  CASE b.to = "raise" ->
                  /\ ret' = Raised(b.exc)
                  /\ pc' = "done"
                  /\ UNCHANGED calls
             [] b.to = "nodetail" ->
                  /\ ret' = Returned(JStr("Unable to fetch detailed forecast."))
                  /\ pc' = "done"
                  /\ UNCHANGED calls
             [] b.to = "detail" ->
                  /\ calls' = Append(calls, [ep |-> "nws_forecast", url |-> b.url])
                  /\ pc' = "detail_wait"
                  /\ UNCHANGED ret
             [] b.to = "fallback" ->
                  /\ calls' = Append(calls, OpenMeteoCall(args.latitude, args.longitude))
                  /\ pc' = "openmeteo_wait"
                  /\ UNCHANGED ret
    /\ UNCHANGED <<tool, args>>

\* Resume_detail with a fallback to the secondary provider when the detail fetch fails
Resume_detail_fallback(r) ==
    /\ pc = "detail_wait"
    /\ resps' = Append(resps, r)
    /\ LET forecast_data == make_nws_request(r)
       IN  IF ~Truthy(forecast_data)
           THEN /\ calls' = Append(calls, [ep |-> "openmeteo",
                                           url |-> OpenMeteoUrl(args.latitude, args.longitude)])
                /\ pc' = "openmeteo_wait"
                /\ UNCHANGED ret
           ELSE /\ ret' = Outcome(RenderForecast(forecast_data))
                /\ pc' = "done"
                /\ UNCHANGED calls
    /\ UNCHANGED <<tool, args>>

\* get_forecast from the detail answer to its return
Resume_detail(r) ==
    /\ pc = "detail_wait"
    /\ resps' = Append(resps, r)
    /\ LET forecast_data == make_nws_request(r)
       IN  ret' = IF ~Truthy(forecast_data)
                  THEN Returned(JStr("Unable to fetch detailed forecast."))
                  ELSE Outcome(RenderForecast(forecast_data))
    /\ pc' = "done"
    /\ UNCHANGED <<tool, args, calls>>

\* Resume_openmeteo with one retry of a request that failed
Resume_openmeteo_retry(r) ==
    /\ pc = "openmeteo_wait"
    /\ resps' = Append(resps, r)
    /\ LET openmeteo_data == make_openmeteo_request(r)
       IN  IF r.o # "Json" /\ Len(calls) < 3
           THEN /\ calls' = Append(calls, OpenMeteoCall(args.latitude, args.longitude))
                /\ pc' = "openmeteo_wait"
                /\ UNCHANGED ret
           ELSE /\ ret' = IF Truthy(openmeteo_data)
                          THEN Outcome(format_openmeteo_forecast(openmeteo_data))
                          ELSE Returned(JStr("Unable to fetch forecast data from any provider."))
                /\ pc' = "done"
                /\ UNCHANGED calls
    /\ UNCHANGED <<tool, args>>

\* get_forecast from the secondary provider's answer to its return
Resume_openmeteo(r) ==
    /\ pc = "openmeteo_wait"
    /\ resps' = Append(resps, r)
    /\ LET openmeteo_data == make_openmeteo_request(r)
       IN  ret' = IF Truthy(openmeteo_data)
                  THEN Outcome(format_openmeteo_forecast(openmeteo_data))
                  ELSE Returned(JStr("Unable to fetch forecast data from any provider."))
    /\ pc' = "done"
    /\ UNCHANGED <<tool, args, calls>>

----------------------------------------------------------------------------
(* make_iploc_request, get_current_location *)

IplocBodies ==
    {JDict([status |-> JStr("success"), city |-> c]) :
        c \in {JStr("Antibes"), JStr("Turin"), JStr(""), JNull, JInt(42)}}
    \cup {JDict([status |-> JStr("success"), country |-> JStr("France")]),
          JDict([status |-> JStr("fail"), message |-> JStr("reserved range")]),
          JDict([status |-> JStr("fail"), city |-> JStr("Turin")]),
          JDict([city |-> JStr("Turin")]),
          EmptyDict, JNull, JList(<<>>), JList(<<JStr("Turin")>>), JStr("Turin")}

\* make_iploc_request, from the answer of its one request on
make_iploc_request(r) ==
    LET data == Fetch(r)
        status == Get(data, "status", JNull)
        city == IF ~status.ok THEN status
                ELSE IF status.v = JStr("success") THEN Get(data, "city", JStr("Antibes"))
                ELSE Ok(JNull)
    IN  IF ~city.ok /\ IsHttpxError(city.exc) THEN Ok(JNull) ELSE city

Call_get_current_location ==
    /\ pc = "idle"
    /\ pc' = "iploc_wait"
    /\ tool' = "get_current_location"
    /\ args' = <<>>
    /\ calls' = <<[ep |-> "iploc", url |-> "http://ip-api.com/json/"]>>
    /\ resps' = <<>>
    /\ ret' = NoRet

Resume_get_current_location(r) ==
    /\ pc = "iploc_wait"
    /\ resps' = Append(resps, r)
    /\ LET result == make_iploc_request(r)
       IN  ret' = IF ~result.ok THEN Raised(result.exc)
                  ELSE IF ~Truthy(result.v)
                  THEN Returned(JStr("Unable to geocode the user location."))
                  ELSE Returned(result.v)
    /\ pc' = "done"
    /\ UNCHANGED <<tool, args, calls>>

----------------------------------------------------------------------------
(* get_flights *)

GOOGLEFL_API_BASE == "https://serpapi.com/search?engine=google_flights"

Routes == {<<"TRN", "NCE">>, <<"JFK", "LAX">>}

Max(a, b) == IF a > b THEN a ELSE b

AsFloat(v) == IF v.t = "int" THEN JFloat(v.n, 0) ELSE v

\* The sum of two floats
FloatSum(x, y) ==
    Normalize(x.m * Pow10(Max(x.e, y.e) - x.e) + y.m * Pow10(Max(x.e, y.e) - y.e),
              Max(x.e, y.e))

\* a + b
PyAdd(a, b) ==
    IF ~a.ok THEN a
    ELSE IF ~b.ok THEN b
    ELSE CASE a.v.t = "list" /\ b.v.t = "list" -> Ok(JList(a.v.l \o b.v.l))
           [] a.v.t = "str" /\ b.v.t = "str" -> Ok(JStr(a.v.s \o b.v.s))
           [] a.v.t = "int" /\ b.v.t = "int" -> Ok(JInt(a.v.n + b.v.n))
           [] a.v.t \in {"int", "float"} /\ b.v.t \in {"int", "float"}
              /\ "float" \in {a.v.t, b.v.t} ->
                 Ok(FloatSum(AsFloat(a.v), AsFloat(b.v)))
           [] OTHER -> Raise("TypeError")

\* str(e) of a caught httpx error
ErrText(exc) ==
    CASE exc = "ConnectError" -> "All connection attempts failed"
      [] exc = "ReadTimeout" -> ""
      [] exc = "HTTPStatusError" -> "Server error '500 Internal Server Error'"

FlightIndent == "                            "

\* offer.get("flights", [{}])[0]
FirstSegment(offer) == GetIndex(Get(Ok(offer), "flights", JList(<<EmptyDict>>)), 0)

\* The f-string of get_flights's loop, from the six entries it interpolates
OfferText(v) ==
    IF v.ok
    THEN Ok(" \n" \o FlightIndent \o "Flight: " \o PyStr(v.v[1]) \o " " \o PyStr(v.v[2])
            \o "\n" \o FlightIndent \o "Departure Time: " \o PyStr(v.v[3])
            \o "\n" \o FlightIndent \o "Total Duration: " \o PyStr(v.v[5]) \o " minutes"
            \o "\n" \o FlightIndent \o "Price: " \o PyStr(v.v[4]) \o " " \o PyStr(v.v[6])
            \o "\n" \o FlightIndent)
    ELSE v

\* One pass of get_flights's loop; data is what resp.json() came to
FormatOffer(offer, data) ==
    LET first_segment == FirstSegment(offer)
    IN  OfferText(All(<<Get(first_segment, "airline", JNull),
                        Get(first_segment, "flight_number", JNull),
                        Get(Get(first_segment, "departure_airport", EmptyDict), "time", JNull),
                        Get(Ok(offer), "price", JNull),
                        Get(Ok(offer), "total_duration", JNull),
                        Get(Get(data, "search_parameters", EmptyDict), "currency", JStr("EUR"))>>))

\* The loop of get_flights over flight_offers
FormatOffers(offers, data) ==
    IF offers.ok
    THEN All([i \in DOMAIN offers.v |-> FormatOffer(offers.v[i], data)])
    ELSE offers

\* FlightOffers with the "best" bucket first
FlightOffers_bestfirst(data) ==
    PyAdd(Get(data, "best_flights", JList(<<>>)), Get(data, "other_flights", JList(<<>>)))

\* data.get('other_flights', []) + data.get('best_flights', [])
FlightOffers(data) ==
    PyAdd(Get(data, "other_flights", JList(<<>>)), Get(data, "best_flights", JList(<<>>)))

FlightsHeader(dept_iata, arr_iata) ==
    "--- Active & Scheduled Flights from " \o dept_iata \o " to " \o arr_iata \o " ---\n"

NoFlightsMessage(dept_iata, arr_iata) ==
    "No active or scheduled flights found between " \o dept_iata \o " and " \o arr_iata
    \o " for the current real-time window."

FlightsErrorMessage(exc) ==
    "Unable to fetch flight data due to a network or API error: " \o ErrText(exc)

\* "\n---\n".join(printout_flights)
ListFlights(dept_iata, arr_iata, blocks) ==
    IF blocks.ok
    THEN Ok(JStr(Join(<<FlightsHeader(dept_iata, arr_iata)>> \o blocks.v, "\n---\n")))
    ELSE blocks

\* The try block of get_flights from data = resp.json() on
FlightsResult(dept_iata, arr_iata, data, flight_offers) ==
    IF flight_offers.ok /\ ~Truthy(flight_offers.v)
    THEN Ok(JStr(NoFlightsMessage(dept_iata, arr_iata)))
    ELSE ListFlights(dept_iata, arr_iata, FormatOffers(Iterate(flight_offers), data))

\* except (httpx.HTTPStatusError, httpx.RequestError) as e
CatchHttpxError(out) ==
    IF ~out.ok /\ IsHttpxError(out.exc) THEN Ok(JStr(FlightsErrorMessage(out.exc))) ELSE out

\* get_flights, from the answer of its one request on
get_flights_body(dept_iata, arr_iata, r) ==
    CatchHttpxError(FlightsResult(dept_iata, arr_iata, Fetch(r), FlightOffers(Fetch(r))))

Segment(airline, num, time) ==
    JDict([airline |-> JStr(airline), flight_number |-> JStr(num),
           departure_airport |-> JDict([id |-> JStr("TRN"), time |-> JStr(time)])])

OfferSet ==
    {JDict([flights |-> JList(<<Segment("ITA", "AZ 1432", "2024-01-01 07:00")>>),
            total_duration |-> JInt(75), price |-> JInt(120)]),
     JDict([flights |-> JList(<<Segment("Lufthansa", "LH 301", "2024-01-01 06:10"),
                                Segment("Air France", "AF 7702", "2024-01-01 09:45")>>),
            total_duration |-> JInt(290), price |-> JInt(210)]),
     JDict([flights |-> JList(<<Segment("easyJet", "U2 4511", "2024-01-01 21:30"),
                                Segment("ITA", "AZ 1432", "2024-01-01 07:00")>>),
            total_duration |-> JInt(600)]),
     JDict([price |-> JInt(99)])}

Buckets == {JList(l) : l \in SeqsUpTo(OfferSet, MaxOffers)}

FlightBodies ==
    {JDict([other_flights |-> o, best_flights |-> b]) : o \in Buckets, b \in Buckets}
    \cup {JDict([other_flights |-> o, best_flights |-> b,
                 search_parameters |-> JDict([currency |-> JStr("USD")])]) :
            o \in Buckets, b \in Buckets}
    \cup {JDict([other_flights |-> o]) : o \in Buckets}
    \cup {JDict([best_flights |-> b, search_parameters |-> EmptyDict]) : b \in Buckets}
    \cup {JDict([error |-> JStr("Google Flights hasn't returned any results for this query.")]),
          JDict([other_flights |-> JNull, best_flights |-> JList(<<>>)]),
          JDict([other_flights |-> JList(<<JDict([flights |-> JList(<<>>), price |-> JInt(1)])>>)]),
          JDict([best_flights |-> JList(<<JDict([flights |-> JNull])>>)]),
          JDict([best_flights |-> JList(<<JNull>>)]),
          JDict([other_flights |-> JStr("none"), best_flights |-> JStr("")]),
          JDict([other_flights |-> JList(<<JDict([price |-> JInt(99)])>>),
                 search_parameters |-> JNull]),
          EmptyDict, JNull, JList(<<>>), JStr("ok")}

Call_get_flights(dept_iata, arr_iata) ==
    /\ pc = "idle"
    /\ pc' = "flights_wait"
    /\ tool' = "get_flights"
    /\ args' = [dept_iata |-> dept_iata, arr_iata |-> arr_iata]
    /\ calls' = <<[ep |-> "flights", url |-> GOOGLEFL_API_BASE,
                   departure_id |-> dept_iata, arrival_id |-> arr_iata]>>
    /\ resps' = <<>>
    /\ ret' = NoRet

Resume_get_flights(r) ==
    /\ pc = "flights_wait"
    /\ resps' = Append(resps, r)
    /\ ret' = Outcome(get_flights_body(args.dept_iata, args.arr_iata, r))
    /\ pc' = "done"
    /\ UNCHANGED <<tool, args, calls>>

----------------------------------------------------------------------------
(* The adapter: one tool invocation per external call *)

Init ==
    /\ pc = "idle"
    /\ tool = "none"
    /\ args = <<>>
    /\ calls = <<>>
    /\ resps = <<>>
    /\ ret = NoRet

\* The adapter takes the outcome; the next external call can come.
Finish ==
    /\ pc = "done"
    /\ pc' = "idle"
    /\ tool' = "none"
    /\ args' = <<>>
    /\ calls' = <<>>
    /\ resps' = <<>>
    /\ ret' = NoRet

Next ==
    \/ \E city \in Cities : Call_geocode_city(city)
    \/ \E r \in Outcomes(GeocodeBodies) : Resume_geocode_city(r)
    \/ \E state \in States : Call_get_alerts(state)
    \/ \E r \in Outcomes(AlertBodies) : Resume_get_alerts(r)
    \/ \E c \in Coords : Call_get_forecast(c[1], c[2])
    \/ \E r \in Outcomes(PointsBodies) : Resume_points(r)
    \/ \E r \in Outcomes(DetailBodies) : Resume_detail(r)
    \/ \E r \in Outcomes(OpenMeteoBodies) : Resume_openmeteo(r)
    \/ Call_get_current_location
    \/ \E r \in Outcomes(IplocBodies) : Resume_get_current_location(r)
    \/ \E route \in Routes : Call_get_flights(route[1], route[2])
    \/ \E r \in Outcomes(FlightBodies) : Resume_get_flights(r)
    \/ Finish

Spec == Init /\ [][Next]_vars

----------------------------------------------------------------------------
(* What the properties below say about requests and answers *)

\* The requests of this invocation sent to endpoint ep
Count(ep) == Cardinality({i \in DOMAIN calls : calls[i].ep = ep})

\* The call failed outright: no connection, a timeout, or a non-success status
NetFailed(r) == r.o \in {"ConnectError", "ReadTimeout", "BadStatus"}

Has(v, k) == v.t = "dict" /\ k \in DOMAIN v.d

IsListOf(v, n) == v.t = "list" /\ Len(v.l) = n

\* A points answer that carries the forecast URL field
HasForecastField(r) ==
    /\ r.o = "Json"
    /\ Has(r.body, "properties")
    /\ Has(r.body.d.properties, "forecast")

\* A secondary-provider answer with the current conditions and a daily summary
\* whose four arrays are lists of one length
WellFormedOpenMeteo(r) ==
    /\ r.o = "Json"
    /\ Has(r.body, "current_weather") /\ r.body.d.current_weather.t = "dict"
    /\ Has(r.body, "daily")
    /\ LET daily == r.body.d.daily
       IN  /\ Has(daily, "time") /\ daily.d.time.t = "list"
           /\ \A k \in {"temperature_2m_max", "temperature_2m_min", "weathercode"} :
                 Has(daily, k) /\ IsListOf(daily.d[k], Len(daily.d.time.l))

IsFallbackRendering(x) ==
    /\ x.kind = "returned"
    /\ x.v.t = "str"
    /\ StartsWith(x.v.s, "\nCurrent Weather:\nTemperature: ")

DetailFailure == Returned(JStr("Unable to fetch detailed forecast."))
FinalFailure == Returned(JStr("Unable to fetch forecast data from any provider."))

----------------------------------------------------------------------------
(* C1: in get_forecast, when the points lookup succeeds and the fetch of the *)
(* detailed forecast then fails, the secondary provider is never queried in *)
(* that invocation and the result is "Unable to fetch detailed forecast."   *)
C1_NoFallbackAfterPoints ==
    (tool = "get_forecast" /\ Len(resps) >= 1 /\ HasForecastField(resps[1]))
    => /\ Count("openmeteo") = 0
       /\ (pc = "done" /\ (Len(resps) = 1 \/ resps[2].o # "Json")) => ret = DetailFailure

C1_Witness ==
    /\ tool = "get_forecast" /\ pc = "done" /\ Len(resps) = 2
    /\ HasForecastField(resps[1])
    /\ NetFailed(resps[2])
    /\ Count("nws_forecast") = 1
    /\ ret = DetailFailure

(* C2: in get_forecast, when the points lookup fails outright, the secondary *)
(* provider is queried exactly once, with the caller's coordinates, the      *)
(* detail endpoint is never queried, and the result is the fallback          *)
(* rendering when the secondary request succeeds (it brings a JSON object    *)
(* that is not empty) and the final failure message when it fails.           *)
C2_FallbackOnce ==
    (tool = "get_forecast" /\ Len(resps) >= 1 /\ NetFailed(resps[1]))
    => /\ Count("nws_forecast") = 0
       /\ Count("openmeteo") = 1
       /\ Len(calls) = 2 /\ calls[2].ep = "openmeteo"
       /\ IsSubstring("?latitude=" \o PyStr(args.latitude) \o "&longitude="
                      \o PyStr(args.longitude) \o "&", calls[2].url)
       /\ (pc = "done" /\ resps[2].o = "Json" /\ resps[2].body.t = "dict" /\ Truthy(resps[2].body))
          => IsFallbackRendering(ret)
       /\ (pc = "done" /\ NetFailed(resps[2])) => ret = FinalFailure

(* C3: in get_forecast, a points answer object with a success status that    *)
(* lacks the forecast URL field is treated like a failed points lookup: it   *)
(* goes on to the secondary provider and ends in the fallback rendering or   *)
(* the final failure message.                                                *)
C3_MissingFieldsFallBack ==
    (/\ tool = "get_forecast" /\ Len(resps) >= 1
     /\ resps[1].o = "Json" /\ resps[1].body.t = "dict" /\ ~HasForecastField(resps[1]))
    => /\ Count("openmeteo") = 1
       /\ Count("nws_forecast") = 0
       /\ (pc = "done" /\ Len(resps) = 2
           /\ (WellFormedOpenMeteo(resps[2]) \/ NetFailed(resps[2])))
          => (IsFallbackRendering(ret) \/ ret = FinalFailure)

(* C4: whatever the shape of an upstream answer, every tool returns a value; *)
(* no exception escapes a tool.                                              *)
C4_NoExceptionEscapes == ret.kind # "raised"

UnableGeocode == Returned(JStr("Unable to geocode the provided location."))
UnableAlerts == Returned(JStr("Unable to fetch alerts or no alerts found."))
NoAlerts == Returned(JStr("No active alerts for this state."))
UnableLocation == Returned(JStr("Unable to geocode the user location."))

(* C5: when an outbound call fails by connection error, timeout or bad       *)
(* status, the tool returns its error string (get_forecast's points lookup:  *)
(* it goes on to the secondary provider), the same for a timeout as for the  *)
(* other failures, and no network error escapes a tool.                      *)
C5_NetworkFailuresHandled ==
    /\ ret.kind = "raised" => ret.exc \notin {"ConnectError", "ReadTimeout", "HTTPStatusError"}
    /\ (tool = "get_forecast" /\ Len(resps) >= 1 /\ NetFailed(resps[1]))
       => (Len(calls) = 2 /\ calls[2].ep = "openmeteo")
    /\ (pc = "done" /\ NetFailed(resps[Len(resps)]))
       => CASE tool = "geocode_city" -> ret = UnableGeocode
            [] tool = "get_alerts" -> ret = UnableAlerts
            [] tool = "get_current_location" -> ret = UnableLocation
            [] tool = "get_flights" ->
                  /\ ret.kind = "returned" /\ ret.v.t = "str"
                  /\ StartsWith(ret.v.s, "Unable to fetch flight data due to a network or API error: ")
            [] tool = "get_forecast" ->
                  /\ Len(resps) = 2
                  /\ calls[2].ep = "nws_forecast" => ret = DetailFailure
                  /\ calls[2].ep = "openmeteo" => ret = FinalFailure

C5_Witness ==
    /\ pc = "done" /\ tool = "get_flights"
    /\ resps[1].o = "ReadTimeout"
    /\ ret.kind = "returned"

(* C6: in get_alerts, an answer whose "features" is an empty list gives the  *)
(* no-alerts message; an answer object whose "features" is absent or is no   *)
(* list, or a failed request, gives the unable-to-fetch message; the two     *)
(* messages differ; the no-alerts message is given only for an empty list.   *)
C6_NoAlertsOnlyForEmptyList ==
    (tool = "get_alerts" /\ pc = "done")
    => LET r == resps[1]
           isObject == r.o = "Json" /\ r.body.t = "dict"
           isList == isObject /\ Has(r.body, "features") /\ r.body.d.features.t = "list"
           isEmptyList == isList /\ r.body.d.features.l = <<>>
       IN  /\ isEmptyList => ret = NoAlerts
           /\ ((isObject /\ ~isList) \/ NetFailed(r)) => ret = UnableAlerts
           /\ NoAlerts # UnableAlerts
           /\ ret = NoAlerts => isEmptyList

PeriodKeys ==
    {"name", "temperature", "temperatureUnit", "windSpeed", "windDirection", "detailedForecast"}

\* A detail answer that carries a list of periods
HasPeriodList(r) ==
    /\ r.o = "Json"
    /\ Has(r.body, "properties")
    /\ Has(r.body.d.properties, "periods")
    /\ r.body.d.properties.d.periods.t = "list"

PeriodsOf(r) == r.body.d.properties.d.periods.l

(* C7: on get_forecast's primary path, an answer with n periods gives        *)
(* exactly min(5, n) blocks, those of the first min(5, n) periods in the     *)
(* order supplied, joined by the separator.                                  *)
C7_FirstFivePeriods ==
    (/\ tool = "get_forecast" /\ pc = "done" /\ Len(resps) = 2
     /\ calls[2].ep = "nws_forecast"
     /\ HasPeriodList(resps[2])
     /\ \A i \in 1..Min(5, Len(PeriodsOf(resps[2]))) :
            \A k \in PeriodKeys : Has(PeriodsOf(resps[2])[i], k))
    => LET l == PeriodsOf(resps[2])
           blocks == [i \in 1..Min(5, Len(l)) |-> FormatPeriod(l[i]).v]
       IN  ret = Returned(JStr(Join(blocks, "\n---\n")))

C7_Witness ==
    /\ tool = "get_forecast" /\ pc = "done" /\ Len(resps) = 2
    /\ HasPeriodList(resps[2])
    /\ Len(PeriodsOf(resps[2])) = 7
    /\ PeriodsOf(resps[2])[1] = Period(7)
    /\ ret.kind = "returned"
    /\ IsSubstring("Period 3:", ret.v.s) /\ ~IsSubstring("Period 2:", ret.v.s)

\* A match whose lat and lon are numbers, or strings that read as numbers
IsNumeric(v) == v.t \in {"int", "float"} \/ (v.t = "str" /\ ParseFloat(v.s).ok)
WellFormedMatch(m) == Has(m, "lat") /\ Has(m, "lon") /\ IsNumeric(m.d.lat) /\ IsNumeric(m.d.lon)

(* C8: geocode_city gives the unable-to-geocode failure for zero matches or  *)
(* a failed request; otherwise a record of the first match, its latitude and *)
(* longitude numbers also when supplied as strings, and its display_name the *)
(* provider's display name whenever the provider supplies one.               *)
C8_GeocodeRecord ==
    (tool = "geocode_city" /\ pc = "done")
    => LET r == resps[1]
       IN  /\ (NetFailed(r) \/ (r.o = "Json" /\ r.body = JList(<<>>))) => ret = UnableGeocode
           /\ (r.o = "Json" /\ r.body.t = "list" /\ r.body.l # <<>> /\ WellFormedMatch(r.body.l[1]))
              => LET m == r.body.l[1]
                 IN  /\ ret.kind = "returned" /\ ret.v.t = "dict"
                     /\ ret.v.d.latitude.t = "float" /\ ret.v.d.latitude = PyFloat(Ok(m.d.lat)).v
                     /\ ret.v.d.longitude.t = "float" /\ ret.v.d.longitude = PyFloat(Ok(m.d.lon)).v
                     /\ Has(m, "display_name") => ret.v.d.display_name = m.d.display_name

\* An offer whose segments, if given, are a list that starts with a segment
WellFormedOffer(o) ==
    /\ o.t = "dict"
    /\ Has(o, "flights") =>
          /\ o.d.flights.t = "list" /\ o.d.flights.l # <<>>
          /\ o.d.flights.l[1].t = "dict"
          /\ Has(o.d.flights.l[1], "departure_airport")
                => o.d.flights.l[1].d.departure_airport.t = "dict"

\* A flight-search answer whose buckets, if given, are lists of such offers
WellFormedFlights(r) ==
    /\ r.o = "Json" /\ r.body.t = "dict"
    /\ \A b \in {"other_flights", "best_flights"} :
          Has(r.body, b) => /\ r.body.d[b].t = "list"
                            /\ \A i \in 1..Len(r.body.d[b].l) : WellFormedOffer(r.body.d[b].l[i])
    /\ Has(r.body, "search_parameters") => r.body.d.search_parameters.t = "dict"

BucketOf(body, b) == IF Has(body, b) THEN body.d[b].l ELSE <<>>

Shown(d, k) == IF Has(d, k) THEN PyStr(d.d[k]) ELSE "None"

\* The block of one candidate: its first segment's airline, flight number and
\* departure time, then the candidate's duration and price
CandidateBlock(offer, body) ==
    LET seg == IF Has(offer, "flights") THEN offer.d.flights.l[1] ELSE EmptyDict
        time == IF Has(seg, "departure_airport") THEN Shown(seg.d.departure_airport, "time")
                ELSE "None"
        currency == IF Has(body, "search_parameters") /\ Has(body.d.search_parameters, "currency")
                    THEN PyStr(body.d.search_parameters.d.currency)
                    ELSE "EUR"
        nl == "\n                            "
    IN  " " \o nl \o "Flight: " \o Shown(seg, "airline") \o " " \o Shown(seg, "flight_number")
        \o nl \o "Departure Time: " \o time
        \o nl \o "Total Duration: " \o Shown(offer, "total_duration") \o " minutes"
        \o nl \o "Price: " \o Shown(offer, "price") \o " " \o currency
        \o nl

C10_NoRetry ==
    /\ tool = "geocode_city" => Len(calls) = 1 /\ calls[1].ep = "geocode"
    /\ tool = "get_alerts" => Len(calls) = 1 /\ calls[1].ep = "nws_alerts"
    /\ tool = "get_current_location" => Len(calls) = 1 /\ calls[1].ep = "iploc"
    /\ tool = "get_flights" => Len(calls) = 1 /\ calls[1].ep = "flights"
    /\ tool = "get_forecast" =>
          /\ Len(calls) \in {1, 2}
          /\ calls[1].ep = "nws_points"
          /\ Len(calls) = 2 => calls[2].ep \in {"nws_forecast", "openmeteo"}
          /\ Count("nws_forecast") + Count("openmeteo") <= 1
    /\ \A i, j \in DOMAIN calls : calls[i].ep = calls[j].ep => i = j
    /\ Len(resps) <= Len(calls)
    /\ pc = "done" => Len(resps) = Len(calls)

C10_Witness ==
    /\ tool = "get_forecast" /\ pc = "done"
    /\ Len(calls) = 2 /\ Len(resps) = 2
    /\ NetFailed(resps[1]) /\ NetFailed(resps[2])

=============================================================================
